---------------------------- MODULE Spec2Model ----------------------------
(***************************************************************************)
(* Variational implicit process layers (src/src/layers.py) and the layer   *)
(* stack initialisation (src/src/layers_init.py).                          *)
(*                                                                         *)
(* Tensors are sequences indexed from 1: a (K, K, D) tensor q is           *)
(* q[i][j][d], a (T, D) tensor t is t[p][d].  An attribute that holds no   *)
(* tensor (Python None, or an attribute never assigned) is the empty       *)
(* sequence.  Numbers are kept exact: a quantity that the code divides by  *)
(* S or sqrt(S - 1) is kept as its integer numerator, exp and log are      *)
(* kept by their argument.                                                 *)
(***************************************************************************)
EXTENDS Integers, Sequences, FiniteSets, TLC

VARIABLES
    layer,      \* the layer instance: its attributes (self.*)
    ret,        \* outcome of the most recent call on the layer
    written,    \* history: what the latest Forward assigned to self.Lu / self.q_sqrt
    pk,         \* triangular packing: the dense tensor, its packing, the unpacking
    il,         \* init_layers: its arguments, loop position and outcome
    thr,        \* concurrent Forward calls: per thread position and locals
    objs        \* concurrent Forward calls: the tensors allocated by each thread

vars == <<layer, ret, written, pk, il, thr, objs>>

-----------------------------------------------------------------------------
(* Bounds of the model *)

MaxK == 3          \* side of the triangular factors in the packing checks
MaxD == 2          \* output dimensions
MaxS == 3          \* basis count of a VIPLayer
MaxM == 2          \* inducing points of an inducing / sparse layer
MaxN == 2          \* points in an input batch
MaxCoef == 2       \* coefficients of the dense tensors given to the packing
MaxDim == 3        \* feature / label dimensions given to init_layers
MaxLayers == 3     \* length of the vip_layers argument

None == <<>>

ParamVals == {-2, -1, 0, 1, 2}

-----------------------------------------------------------------------------
(* Generic helpers *)

RECURSIVE SumTo(_, _)
SumTo(F, n) == IF n = 0 THEN 0 ELSE F[n] + SumTo(F, n - 1)

\* sum of F[1..Len(F)]
SumSeq(F) == SumTo(F, Len(F))

Abs(x) == IF x < 0 THEN -x ELSE x

\* torch.zeros((K, K, D))
Zeros3(K, D) == [i \in 1..K |-> [j \in 1..K |-> [d \in 1..D |-> 0]]]

\* np.tile((np.eye(K) * v)[:, :, None], [1, 1, D])
EyeTiled(K, D, v) ==
    [i \in 1..K |-> [j \in 1..K |-> [d \in 1..D |-> IF i = j THEN v ELSE 0]]]

\* np.ones((K, D)) * v
Const2(K, D, v) == [i \in 1..K |-> [d \in 1..D |-> v]]

\* shape of a 2-axis tensor
Shape2(t) == <<Len(t), IF Len(t) = 0 THEN 0 ELSE Len(t[1])>>

-----------------------------------------------------------------------------
(* Triangular covariance factor *)

\* torch.tril_indices(K, K): the (row, column) pairs of the lower triangle,
\* rows in order, within a row the columns in order.
RECURSIVE TrilIndices(_)
TrilIndices(K) ==
    IF K = 0 THEN <<>>
    ELSE TrilIndices(K - 1) \o [j \in 1..K |-> <<K, j>>]

\* number of packed positions
TriLen(K) == (K * (K + 1)) \div 2

\* q_sqrt[li, lj] on a (K, K, D) tensor: one row of D values per index pair
Pack(q, K) ==
    LET idx == TrilIndices(K)
    IN  [p \in 1..Len(idx) |-> q[idx[p][1]][idx[p][2]]]

\* q[li, lj] = tri: the rows of tri written at the index pairs, one by one
RECURSIVE IndexPut(_, _, _, _)
IndexPut(q, idx, tri, p) ==
    IF p = 0 THEN q
    ELSE [IndexPut(q, idx, tri, p - 1) EXCEPT ![idx[p][1]][idx[p][2]] = tri[p]]

\* The lower triangle enumerated column by column: (1,1), (2,1), ..., (K,1),
\* (2,2), ...  Used only by the transposed unpacking below.
RECURSIVE ColMajorFrom(_, _)
ColMajorFrom(j, K) ==
    IF j > K THEN <<>>
    ELSE [i \in 1..(K - j + 1) |-> <<j + i - 1, j>>] \o ColMajorFrom(j + 1, K)

TrilIndicesColMajor(K) == ColMajorFrom(1, K)

UnpackColMajor(tri, K, D) ==
    LET idx == TrilIndicesColMajor(K)
    IN  IndexPut(Zeros3(K, D), idx, tri, Len(idx))

\* q = zeros((K, K, D)); q[li, lj] = tri
Unpack(tri, K, D) ==
    LET idx == TrilIndices(K)
    IN  IndexPut(Zeros3(K, D), idx, tri, Len(idx))

\* The positions at which the rows start (cumsum(0..K-1)): the first column,
\* not the diagonal.
DiagIndexesRowStart(K) == [j \in 1..K |-> (j * (j - 1)) \div 2]

\* np.cumsum(np.arange(1, K + 1)) - 1, as positions counted from 0
DiagIndexes(K) == [j \in 1..K |-> SumTo([i \in 1..K |-> i], j) - 1]

\* Diagonal positions shifted by one row (cumsum(0..K-1)): a wrong index set.
DiagOfShifted(tri, K) == [j \in 1..K |-> tri[(DiagIndexes(K)[j] - j + 1) + 1]]

\* tri[diag_indexes]: the rows of tri at the diagonal positions
DiagOf(tri, K) == [j \in 1..K |-> tri[DiagIndexes(K)[j] + 1]]

-----------------------------------------------------------------------------
(* Collaborators of a layer: generative function and mean function *)

GenFs == {"zero", "ramp", "full"}

\* number of outputs of the generative function (1, or D with full output)
OutOf(g, D) == IF g = "full" THEN D ELSE 1

\* sample s of the generative function at location x, output o
GenF(g, s, x, o) ==
    CASE g = "zero" -> 0
      [] g = "ramp" -> 2 * (s - 1) + x
      [] OTHER      -> s * s + x * o

\* generative_function(X): shape (S, N, out)
FSamples(g, S, X, D) ==
    [s \in 1..S |-> [n \in 1..Len(X) |-> [o \in 1..OutOf(g, D) |-> GenF(g, s, X[n], o)]]]

\* mean_function(X)[n][d] of a LinearProjection with P = (1, 2, ..., D)
MeanFn(mf, x, d) == IF mf = "proj" THEN x * d ELSE 0

-----------------------------------------------------------------------------
(* Construction *)

Kinds == {"VIPLayer", "VIPLayerInducing", "SparseGP"}

IsInducing(s) == s.kind \in {"VIPLayerInducing", "SparseGP"}

\* Z: the inducing locations, here M points on a line starting at z0
InducingZ(M, z0) == [m \in 1..M |-> z0 + m - 1]

\* __init__ of the three layers.  noise is None or <<v>>.
NewLayer(kind, K, D, g, noise, mf, reg, mu0, sqrt0) ==
    [ kind |-> kind,
      num |-> K,
      output_dim |-> D,
      add_prior_regularization |-> reg,
      q_mu |-> Const2(K, D, mu0),
      mean_function |-> mf,
      generative_function |-> IF kind = "SparseGP" THEN "absent" ELSE g,
      log_layer_noise |-> IF noise # None THEN [d \in 1..D |-> noise[1]] ELSE None,
      q_sqrt_tri |-> Pack(EyeTiled(K, D, sqrt0), K),
      inducing_points |-> IF kind = "VIPLayer" THEN None ELSE InducingZ(K, 1),
      log_lengthscale |-> 0,
      log_amplitude |-> 0,
      requires_grad |-> [q_mu |-> TRUE, q_sqrt_tri |-> TRUE, log_layer_noise |-> noise # None],
      Lu |-> None,
      q_sqrt |-> None ]

-----------------------------------------------------------------------------
(* VIPLayer.forward and VIPLayer.KL, exact arithmetic *)

\* sum over the S samples of f[., n, o]: S times the empirical mean m[n, o]
SampleSum(f, n, o) == SumSeq([s \in 1..Len(f) |-> f[s][n][o]])

\* Centring forgotten: phi built from f instead of f - m.
CentredNoMean(f) ==
    [s \in 1..Len(f) |-> [n \in 1..Len(f[1]) |-> [o \in 1..Len(f[1][1]) |->
        Len(f) * f[s][n][o]]]]

\* S * (f - m): the numerator of the centred samples
Centred(f) ==
    [s \in 1..Len(f) |-> [n \in 1..Len(f[1]) |-> [o \in 1..Len(f[1][1]) |->
        Len(f) * f[s][n][o] - SampleSum(f, n, o)]]]

\* phi = (f - m) / sqrt(S - 1) is not a number when S = 1: f - m is 0 and so
\* is the divisor.
PhiIsNaN(S) == S - 1 = 0

\* index of the generative function's output used for output dimension d
\* (an output axis of size 1 is broadcast)
OutIdx(f, d) == IF Len(f[1][1]) = 1 THEN 1 ELSE d

\* The mean function never added to the predictive mean.
MeanEntryNoMeanFn(s, f, c, X, n, d) ==
    LET S == s.num
        o == OutIdx(f, d)
    IN  IF PhiIsNaN(S) THEN [nan |-> TRUE, rat |-> 0, irr |-> 0]
        ELSE [ nan |-> FALSE,
               rat |-> SampleSum(f, n, o),
               irr |-> SumSeq([a \in 1..S |-> c[a][n][o] * s.q_mu[a][d]]) ]

\* The mean entry [n][d]: value rat / S + irr / (S * sqrt(S - 1)), from the
\* samples f and their centred numerators c.
\*   mean = m.squeeze(0) + einsum("snd,sd->nd", phi, q_mu) (+ mean_function(X))
MeanEntry(s, f, c, X, n, d) ==
    LET S == s.num
        o == OutIdx(f, d)
    IN  IF PhiIsNaN(S) THEN [nan |-> TRUE, rat |-> 0, irr |-> 0]
        ELSE [ nan |-> FALSE,
               rat |-> SampleSum(f, n, o)
                       + (IF s.mean_function # "none"
                          THEN S * MeanFn(s.mean_function, X[n], d) ELSE 0),
               irr |-> SumSeq([a \in 1..S |-> c[a][n][o] * s.q_mu[a][d]]) ]

\* einsum("ind, sid -> snd", phi, q_sqrt)[a][n][d], numerator over S * sqrt(S - 1)
ProjEntry(q, c, a, n, o, d) ==
    SumSeq([i \in 1..Len(c) |-> c[i][n][o] * q[a][i][d]])

\* The variance entry [n][d]: value num / (S * S * (S - 1)), plus
\* exp(noise[1]) when noise is not None; q is the unpacked q_sqrt.
VarEntry(s, c, q, n, d) ==
    LET S == s.num
        o == IF Len(c[1][1]) = 1 THEN 1 ELSE d
        k == [a \in 1..S |-> ProjEntry(q, c, a, n, o, d)]
    IN  [ nan |-> PhiIsNaN(S),
          num |-> IF PhiIsNaN(S) THEN 0 ELSE SumSeq([a \in 1..S |-> k[a] * k[a]]),
          noise |-> IF s.log_layer_noise # None THEN <<s.log_layer_noise[d]>> ELSE None ]

\* VIPLayer.forward(X): the returned (mean, K)
VIPForward(s, X) ==
    LET f == FSamples(s.generative_function, s.num, X, s.output_dim)
        c == Centred(f)
        q == Unpack(s.q_sqrt_tri, s.num, s.output_dim)
    IN  [ status |-> "ok",
          mean |-> [n \in 1..Len(X) |-> [d \in 1..s.output_dim |-> MeanEntry(s, f, c, X, n, d)]],
          var  |-> [n \in 1..Len(X) |-> [d \in 1..s.output_dim |-> VarEntry(s, c, q, n, d)]] ]

\* log|x| for x in ParamVals, as a multiple of ln 2 (log 0 is -infinity)
Log2Abs(x) == IF Abs(x) = 2 THEN 1 ELSE 0

\* sum of the squares of all entries of a 2-axis tensor
SumSquares(t) ==
    SumSeq([p \in 1..Len(t) |-> SumSeq([d \in 1..Len(t[p]) |-> t[p][d] * t[p][d]])])

\* sum of log2|x| over the entries of a 2-axis tensor
SumLog2(t) ==
    SumSeq([p \in 1..Len(t) |-> SumSeq([d \in 1..Len(t[p]) |-> Log2Abs(t[p][d])])])

HasZero(t) == \E p \in 1..Len(t) : \E d \in 1..Len(t[p]) : t[p][d] = 0

\* diag = self.q_sqrt_tri[diag_indexes]
KLDiag(s) == DiagOf(s.q_sqrt_tri, s.num)

\* VIPLayer.KL(): value twice / 2 + ln2 * ln(2) + genf * generative_function.KL(),
\* or +infinity when a diagonal entry is 0.
VIPKL(s) ==
    LET diag == KLDiag(s)
    IN  IF HasZero(diag)
        THEN [inf |-> TRUE, twice |-> 0, ln2 |-> 0, genf |-> 0]
        ELSE [ inf |-> FALSE,
               twice |-> (0 - s.output_dim * s.num)
                         + SumSquares(s.q_sqrt_tri) + SumSquares(s.q_mu),
               ln2 |-> 0 - SumLog2(diag),
               genf |-> IF s.add_prior_regularization THEN 1 ELSE 0 ]

-----------------------------------------------------------------------------
(* VIPLayerInducing / SparseGP: forward and KL.  The covariance blocks and  *)
(* their Cholesky factor are kept as the expression that produced them:     *)
(* what they were computed from.                                            *)

\* What Ku, Kf and Kfu are computed from: the joint samples of the generative
\* function (one random draw per call) for VIPLayerInducing, the kernel
\* parameters for SparseGP; the inducing points for both.
CovSrc(s, draw) ==
    [ kind |-> s.kind,
      gen  |-> s.generative_function,
      Z    |-> s.inducing_points,
      ls   |-> IF s.kind = "SparseGP" THEN s.log_lengthscale ELSE 0,
      amp  |-> IF s.kind = "SparseGP" THEN s.log_amplitude ELSE 0,
      draw |-> IF s.kind = "SparseGP" THEN 0 ELSE draw ]

\* torch.linalg.cholesky(Ku + 1e-4 * eye(M))
LuOf(s, draw) == <<CovSrc(s, draw)>>

\* the two triangular solves: A = Kfu / Lu^T / Lu, with the value of self.Lu
\* read by each solve
AOf(s, X, draw, luT, lu) == [Kfu |-> [src |-> CovSrc(s, draw), X |-> X], LuT |-> luT, Lu |-> lu]

\* mean = einsum("dnm, md -> nd", A, q_mu) (+ mean_function(X))
MeanOf(s, A, X) == <<[A |-> A, q_mu |-> s.q_mu, mf |-> s.mean_function, X |-> X]>>

\* The contraction over the first axis instead of the second: q^T q.
QQTransposed(q1, q2) ==
    [d \in 1..Len(q1[1][1]) |-> [n \in 1..Len(q1) |-> [b \in 1..Len(q2) |->
        SumSeq([m \in 1..Len(q1) |-> q1[m][n][d] * q2[m][b][d]])]]]

\* einsum("nmd, bmd->dnb", q1, q2)[d][n][b]
QQ(q1, q2) ==
    [d \in 1..Len(q1[1][1]) |-> [n \in 1..Len(q1) |-> [b \in 1..Len(q2) |->
        SumSeq([m \in 1..Len(q1[n]) |-> q1[n][m][d] * q2[b][m][d]])]]]

\* K = diagonal(Kf) + sum(A * (SK A^T)^T), SK = QQ - Ku (+ exp(log_layer_noise))
VarOf(s, A, X, draw, qq) ==
    <<[Kf |-> [src |-> CovSrc(s, draw), X |-> X], A |-> A, QQ |-> qq,
       Ku |-> CovSrc(s, draw), noise |-> s.log_layer_noise]>>

\* shape of the returned mean: einsum("snd,sd->nd") / einsum("dnm, md -> nd")
MeanShape(s, N) == <<N, s.output_dim>>

\* shape of the returned variance; <<>> when the noise cannot be broadcast
\* onto the (D, N) tensor K (SparseGP adds a (D,) noise to it)
VarShape(s, N) ==
    LET D == s.output_dim
    IN  IF s.kind = "VIPLayer" THEN <<N, D>>
        ELSE IF s.kind = "VIPLayerInducing" \/ s.log_layer_noise = None THEN <<D, N>>
        ELSE IF D = 1 \/ N = D THEN <<D, N>>
        ELSE IF N = 1 THEN <<D, D>>
        ELSE None

-----------------------------------------------------------------------------
(* SparseGP in exact arithmetic.  A kernel entry is kept by its arguments;  *)
(* when every entry is exp(0) * exp(-0) = 1 the numbers are polynomials in  *)
(* the jitter unit e = 2e-6: <<c0, c1, ...>> is c0 + c1 e + c2 e^2 + ...    *)

\* 2e-6 * eye (lines 534, 536) and 1e-4 * eye (line 539), in units of 2e-6
PartitionJitter == 1
CholeskyJitter == 50

\* kernel(x1, x2)[0][i][j] = exp(log_amplitude) * exp(-dist[i][j]) with
\* dist = (x1[i] / exp(ls) - x2[j] / exp(ls))^2: la, and d2 / exp(ls)^2 (the
\* lengthscale plays no part when d2 = 0); jit counts the jitter units added
kernel(la, ls, x1, x2) ==
    [i \in 1..Len(x1) |-> [j \in 1..Len(x2) |->
        LET d2 == (x1[i] - x2[j]) * (x1[i] - x2[j])
        IN  [la |-> la, d2 |-> d2, ls |-> IF d2 = 0 THEN 0 ELSE ls, jit |-> 0]]]

\* The jitter added to every entry, not only to the diagonal.
AddOnes(K, c) ==
    [i \in 1..Len(K) |-> [j \in 1..Len(K[i]) |-> [K[i][j] EXCEPT !.jit = @ + c]]]

\* K + c * 2e-6 * torch.eye(n)
AddEye(K, c) ==
    [i \in 1..Len(K) |-> [j \in 1..Len(K[i]) |->
        [K[i][j] EXCEPT !.jit = IF i = j THEN @ + c ELSE @]]]

\* every entry is 1 (+ jitter): amplitude exp(0), distance 0
Rational(K) == \A i \in 1..Len(K) : \A j \in 1..Len(K[i]) : K[i][j].la = 0 /\ K[i][j].d2 = 0

RECURSIVE PTrim(_)
PTrim(p) ==
    IF Len(p) > 0 /\ p[Len(p)] = 0 THEN PTrim(SubSeq(p, 1, Len(p) - 1)) ELSE p

PCoef(p, k) == IF k <= Len(p) THEN p[k] ELSE 0

PAdd(p, q) ==
    PTrim([k \in 1..(IF Len(p) > Len(q) THEN Len(p) ELSE Len(q)) |-> PCoef(p, k) + PCoef(q, k)])

PScale(c, p) == PTrim([k \in 1..Len(p) |-> c * p[k]])

PMul(p, q) ==
    IF Len(p) = 0 \/ Len(q) = 0 THEN <<>>
    ELSE PTrim([k \in 1..(Len(p) + Len(q) - 1) |->
                   SumSeq([i \in 1..k |-> PCoef(p, i) * PCoef(q, k - i + 1)])])

RECURSIVE PSumTo(_, _)
PSumTo(F, n) == IF n = 0 THEN <<>> ELSE PAdd(F[n], PSumTo(F, n - 1))

\* sum of a sequence of polynomials
PSum(F) == PSumTo(F, Len(F))

\* the value 1 + jit * e of an entry of a Rational matrix
Value(k) == PTrim(<<1, k.jit>>)

Values(K) == [i \in 1..Len(K) |-> [j \in 1..Len(K[i]) |-> Value(K[i][j])]]

\* P without row r and column c
Minor(P, r, c) ==
    [i \in 1..(Len(P) - 1) |-> [j \in 1..(Len(P) - 1) |->
        P[IF i < r THEN i ELSE i + 1][IF j < c THEN j ELSE j + 1]]]

Sign(k) == IF k % 2 = 0 THEN 1 ELSE -1

RECURSIVE Det(_)
Det(P) ==
    IF Len(P) = 1 THEN P[1][1]
    ELSE PSum([j \in 1..Len(P) |-> PScale(Sign(1 + j), PMul(P[1][j], Det(Minor(P, 1, j))))])

\* the adjugate: P^-1 = Adj(P) / Det(P)
Adj(P) ==
    IF Len(P) = 1 THEN << << <<1>> >> >>
    ELSE [i \in 1..Len(P) |-> [j \in 1..Len(P) |-> PScale(Sign(i + j), Det(Minor(P, j, i)))]]

\* Lu Lu^T = Ku + 1e-4 * eye(M): the matrix the two triangular solves of
\* forward, and the solves of KL, are solved against
CholeskyOf(Ku) == Values(AddEye(Ku, CholeskyJitter))

\* The numerator of A = Kfu / Lu^T / Lu = Kfu (Lu Lu^T)^-1 over Det(Lu Lu^T)
ATimesDet(Kfu, adj) ==
    [n \in 1..Len(Kfu) |-> [b \in 1..Len(adj) |->
        PSum([m \in 1..Len(adj) |-> PMul(Value(Kfu[n][m]), adj[m][b])])]]

\* SK = einsum("nmd, bmd->dnb", q_sqrt, q_sqrt) - Ku
SKOf(qq, Ku) ==
    [d \in 1..Len(qq) |-> [m \in 1..Len(Ku) |-> [b \in 1..Len(Ku) |->
        PAdd(PTrim(<<qq[d][m][b]>>), PScale(-1, Value(Ku[m][b])))]]]

\* B = einsum("dmb, dnb -> dmn", SK, A); delta_cov = sum(A * B.permute(0, 2, 1), -1):
\* the numerator of delta_cov[d][n] over Det^2
DeltaCov(SK, An) ==
    [d \in 1..Len(SK) |-> [n \in 1..Len(An) |->
        PSum([m \in 1..Len(SK[d]) |->
            PMul(An[n][m], PSum([b \in 1..Len(SK[d]) |-> PMul(SK[d][m][b], An[n][b])]))])]]

\* Ku, Kf, Kfu of SparseGP.forward(X) and, when they are Rational, the
\* determinant of Lu Lu^T and the numerators of delta_cov over its square
SparseExact(s, X, q) ==
    LET Z   == s.inducing_points
        Ku  == AddEye(kernel(s.log_amplitude, s.log_lengthscale, Z, Z), PartitionJitter)
        Kf  == AddEye(kernel(s.log_amplitude, s.log_lengthscale, X, X), PartitionJitter)
        Kfu == kernel(s.log_amplitude, s.log_lengthscale, X, Z)
        ok  == Rational(Ku) /\ Rational(Kfu)
        P   == CholeskyOf(Ku)
    IN  <<[ Ku |-> Ku, Kf |-> Kf, Kfu |-> Kfu,
            det |-> IF ok THEN <<Det(P)>> ELSE None,
            delta |-> IF ok THEN DeltaCov(SKOf(QQ(q, q), Ku), ATimesDet(Kfu, Adj(P)))
                      ELSE None ]>>

\* sum(square(solve_triangular(Lu, b))) for one right-hand side b, times
\* Det(Lu Lu^T): |Lu^-1 b|^2 = b^T (Lu Lu^T)^-1 b
SolveSquares(adj, b) ==
    PSum([j \in 1..Len(b) |-> PSum([k \in 1..Len(b) |-> PScale(b[j] * b[k], adj[j][k])])])

\* torch.sum(torch.square(solve_triangular(self.Lu, self.q_sqrt))): the
\* (M, M, D) tensor q_sqrt is a batch of M right-hand-side matrices q_sqrt[i]
\* of shape (M, D), column d of which is q_sqrt[i, :, d].  Times Det(Lu Lu^T);
\* src is what self.Lu was computed from.
TraceExact(src, q) ==
    LET Ku == AddEye(kernel(src.amp, src.ls, src.Z, src.Z), PartitionJitter)
        P  == CholeskyOf(Ku)
    IN  IF src.kind # "SparseGP" \/ ~Rational(Ku) THEN None
        ELSE <<[ det |-> Det(P),
                 num |-> PSum([i \in 1..Len(q) |-> PSum([d \in 1..Len(q[i][1]) |->
                            SolveSquares(Adj(P), [j \in 1..Len(q[i]) |-> q[i][j][d]])])]) ]>>

-----------------------------------------------------------------------------
(* The calls of the inducing and sparse layers *)

\* A forward that unpacks q_sqrt_tri on the first call only and keeps that dense
\* tensor afterwards
ForwardCacheNoCopy(s, draw) ==
    [Lu |-> LuOf(s, draw), q_sqrt |-> IF s.q_sqrt = None THEN Unpack(s.q_sqrt_tri, s.num, s.output_dim) ELSE s.q_sqrt]

\* What forward assigns to self.Lu and self.q_sqrt
ForwardCache(s, draw) ==
    [Lu |-> LuOf(s, draw), q_sqrt |-> Unpack(s.q_sqrt_tri, s.num, s.output_dim)]

\* VIPLayerInducing.forward / SparseGP.forward run alone: the returned (mean, K)
InducingForward(s, X, draw) ==
    LET c  == ForwardCache(s, draw)
        A  == AOf(s, X, draw, c.Lu, c.Lu)
    IN  [ status |-> IF VarShape(s, Len(X)) = None THEN "raised" ELSE "ok",
          mean |-> IF VarShape(s, Len(X)) = None THEN None ELSE MeanOf(s, A, X),
          var  |-> IF VarShape(s, Len(X)) = None THEN None
                   ELSE VarOf(s, A, X, draw, QQ(c.q_sqrt, c.q_sqrt)),
          exact |-> IF s.kind = "SparseGP" THEN SparseExact(s, X, c.q_sqrt) ELSE None ]

\* solve_triangular(self.Lu, self.q_sqrt) needs the batch axes (out,) of Lu and
\* (M,) of q_sqrt to broadcast
KLBatchOk(s) ==
    LET out == OutOf(s.generative_function, s.output_dim)
    IN  out = 1 \/ s.num = 1 \/ out = s.num

\* VIPLayerInducing.KL / SparseGP.KL
InducingKL(s) ==
    IF s.Lu = None
    THEN [status |-> "raised", kl |-> None, readLu |-> None, readQ |-> None]
    ELSE [ status |-> IF ~KLBatchOk(s) \/ (s.kind = "SparseGP" /\ s.add_prior_regularization)
                      THEN "raised" ELSE "ok",
           kl |-> IF ~KLBatchOk(s) \/ (s.kind = "SparseGP" /\ s.add_prior_regularization)
                  THEN None
                  ELSE <<[ diag |-> KLDiag(s), Lu |-> s.Lu, q_sqrt |-> s.q_sqrt, q_mu |-> s.q_mu,
                           genf |-> s.add_prior_regularization,
                           trace |-> TraceExact(s.Lu[1], s.q_sqrt) ]>>,
           readLu |-> s.Lu,
           readQ |-> s.q_sqrt ]

-----------------------------------------------------------------------------
(* One layer instance and the calls made on it, one after the other *)

Batches == {[n \in 1..N |-> n] : N \in 1..MaxN}

\* the random draws of the generative function a call may see
Draws == {1, 2}

NoRet == [op |-> "none", status |-> "ok", mean |-> None, var |-> None, kl |-> None,
          readLu |-> None, readQ |-> None, X |-> None, exact |-> None]

NoWritten == [Lu |-> None, q_sqrt |-> None]

\* Values the optimizer may give the parameters, by choice number v: the
\* constructor's values (v = 0), scaled and dense factors, factors with zero
\* and negative entries.
ParamChoices == 0..3

QMuChoice(K, D, v) ==
    CASE v % 3 = 0 -> Const2(K, D, 0)
      [] v % 3 = 1 -> Const2(K, D, 1)
      [] OTHER     -> [k \in 1..K |-> [d \in 1..D |-> ((k + d) % 3) - 1]]

TriChoice(K, D, v) ==
    CASE v % 4 = 0 -> Pack(EyeTiled(K, D, 1), K)
      [] v % 4 = 1 -> Pack(EyeTiled(K, D, 2), K)
      [] v % 4 = 2 -> [p \in 1..TriLen(K) |-> [d \in 1..D |-> 1]]
      [] OTHER     -> [p \in 1..TriLen(K) |-> [d \in 1..D |-> ((p + 2 * d) % 5) - 2]]

NoiseChoice(D, v) == [d \in 1..D |-> v % 2]

\* inducing points on a line (v < 2) or all at one location
ZChoice(M, v) == IF v < 2 THEN InducingZ(M, 1 + v) ELSE [m \in 1..M |-> v - 1]

\* the attributes of the layer after forward(X)
ForwardSelf(s, draw) ==
    IF s.kind = "VIPLayer" THEN s
    ELSE [s EXCEPT !.Lu = ForwardCache(s, draw).Lu, !.q_sqrt = ForwardCache(s, draw).q_sqrt]

\* forward(X): pd says whether the Cholesky factorisation succeeds
ForwardOn(X, draw, pd) ==
    /\ layer.kind # "none"
    /\ layer.kind # "VIPLayerInducing" => draw = 1
    /\ layer.kind = "VIPLayer" => pd
    /\ IF layer.kind = "VIPLayer"
       THEN LET r == VIPForward(layer, X)
            IN  /\ ret' = [NoRet EXCEPT !.op = "forward", !.status = r.status,
                                        !.mean = r.mean, !.var = r.var, !.X = X]
                /\ layer' = ForwardSelf(layer, draw)
                /\ UNCHANGED written
       ELSE IF ~pd
       THEN /\ ret' = [NoRet EXCEPT !.op = "forward", !.status = "raised", !.X = X]
            /\ UNCHANGED <<layer, written>>
       ELSE LET r == InducingForward(layer, X, draw)
            IN  /\ ret' = [NoRet EXCEPT !.op = "forward", !.status = r.status,
                                        !.mean = r.mean, !.var = r.var, !.X = X,
                                        !.exact = r.exact]
                /\ layer' = ForwardSelf(layer, draw)
                /\ written' = [Lu |-> LuOf(layer, draw),
                               q_sqrt |-> Unpack(layer.q_sqrt_tri, layer.num,
                                                 layer.output_dim)]
    /\ UNCHANGED <<pk, il, thr, objs>>

Forward == \E X \in Batches, draw \in Draws, pd \in BOOLEAN : ForwardOn(X, draw, pd)

\* A KL that scales q_mu in place while forming the mean term
KLSelfInPlace(s) == [s EXCEPT !.q_mu = Const2(s.num, s.output_dim, 0)]

\* the attributes of the layer after KL(): it assigns none
KLSelf(s) == s

\* KL()
KL ==
    /\ layer.kind # "none"
    /\ IF layer.kind = "VIPLayer"
       THEN ret' = [NoRet EXCEPT !.op = "KL", !.kl = <<VIPKL(layer)>>]
       ELSE LET r == InducingKL(layer)
            IN  ret' = [NoRet EXCEPT !.op = "KL", !.status = r.status, !.kl = r.kl,
                                     !.readLu = r.readLu, !.readQ = r.readQ]
    /\ layer' = KLSelf(layer)
    /\ UNCHANGED <<written, pk, il, thr, objs>>

\* bool(t) of a tensor t with Len(t) elements, or of None: "raise" when the
\* tensor has more than one element
Truthy(t) ==
    IF t = None THEN "false"
    ELSE IF Len(t) > 1 THEN "raise"
    ELSE IF t[1] # 0 THEN "true" ELSE "false"

\* freeze_posterior()
FreezePosterior ==
    /\ layer.kind # "none"
    /\ layer' = [layer EXCEPT !.requires_grad =
                    [ q_mu |-> FALSE, q_sqrt_tri |-> FALSE,
                      log_layer_noise |-> IF Truthy(layer.log_layer_noise) = "true"
                                          THEN FALSE ELSE @.log_layer_noise ]]
    /\ ret' = [NoRet EXCEPT !.op = "freeze_posterior",
                            !.status = IF Truthy(layer.log_layer_noise) = "raise"
                                       THEN "raised" ELSE "ok"]
    /\ UNCHANGED <<written, pk, il, thr, objs>>

\* The parameters given the values of choice v, the inducing points Z and the
\* log-amplitude la
ParamStep(v, Z, la) ==
    /\ layer' = [layer EXCEPT
                   !.q_mu = IF layer.requires_grad.q_mu
                            THEN QMuChoice(layer.num, layer.output_dim, v) ELSE @,
                   !.q_sqrt_tri = IF layer.requires_grad.q_sqrt_tri
                                  THEN TriChoice(layer.num, layer.output_dim, v) ELSE @,
                   !.log_layer_noise =
                       IF layer.log_layer_noise # None /\ layer.requires_grad.log_layer_noise
                       THEN NoiseChoice(layer.output_dim, v) ELSE @,
                   !.inducing_points = IF IsInducing(layer) THEN Z ELSE @,
                   !.log_lengthscale = IF layer.kind = "SparseGP" THEN v % 2 ELSE @,
                   !.log_amplitude = IF layer.kind = "SparseGP" THEN la ELSE @ ]
    /\ ret' = [NoRet EXCEPT !.op = "step"]
    /\ UNCHANGED <<written, pk, il, thr, objs>>

\* An optimizer step between two calls: every trainable parameter may change
OptimizerStep ==
    /\ layer.kind # "none"
    /\ \E v \in ParamChoices : ParamStep(v, InducingZ(layer.num, 1 + (v % 2)), 0 - (v % 2))

Idle == [pc |-> "idle"]

\* A layer of any of the three classes, as constructed
Init ==
    /\ \E kind \in Kinds, K \in 1..MaxM, D \in 1..MaxD,
          noise \in {None, <<0>>, <<1>>}, reg \in BOOLEAN :
          layer = NewLayer(kind, K, D, "ramp", noise, "none", reg, 0, 1)
    /\ ret = NoRet
    /\ written = NoWritten
    /\ pk = Idle /\ il = Idle /\ thr = Idle /\ objs = Idle

Next == Forward \/ KL \/ FreezePosterior \/ OptimizerStep

Spec == Init /\ [][Next]_vars

\* A VIPLayer with any generative function, noise and mean function
InitVIP ==
    /\ \E S \in 1..MaxS, D \in 1..MaxD, g \in GenFs,
          noise \in {None, <<0>>, <<1>>}, mf \in {"none", "proj"}, reg \in BOOLEAN :
          layer = NewLayer("VIPLayer", S, D, g, noise, mf, reg, 0, 1)
    /\ ret = NoRet
    /\ written = NoWritten
    /\ pk = Idle /\ il = Idle /\ thr = Idle /\ objs = Idle

NextVIP == Forward \/ KL \/ OptimizerStep

SpecVIP == InitVIP /\ [][NextVIP]_vars

\* Batches of points at one location, and the batches above
SparseBatches == {[n \in 1..N |-> z] : N \in 1..MaxN, z \in 1..2} \cup Batches

\* SparseGP.forward(X)
SparseForward == \E X \in SparseBatches, pd \in BOOLEAN : ForwardOn(X, 1, pd)

\* A SparseGP as constructed, on inducing points Z at one location or on a line
InitSparse ==
    /\ \E M \in 1..MaxM, D \in 1..MaxD, noise \in {None, <<0>>}, v \in {0, 2} :
          layer = [NewLayer("SparseGP", M, D, "absent", noise, "none", FALSE, 0, 1)
                      EXCEPT !.inducing_points = ZChoice(M, v)]
    /\ ret = NoRet
    /\ written = NoWritten
    /\ pk = Idle /\ il = Idle /\ thr = Idle /\ objs = Idle

\* An optimizer step of a SparseGP, the inducing points staying on a line or
\* moving to one location
SparseOptimizerStep ==
    /\ layer.kind # "none"
    /\ \E v \in ParamChoices : ParamStep(v, ZChoice(layer.num, v), IF v = 1 THEN -1 ELSE 0)

NextSparse == SparseForward \/ KL \/ SparseOptimizerStep

SpecSparse == InitSparse /\ [][NextSparse]_vars

-----------------------------------------------------------------------------
(* Properties of one layer instance under sequential calls (Spec) *)

\* the parameters and flags of a layer
Params(s) ==
    [ q_mu |-> s.q_mu, q_sqrt_tri |-> s.q_sqrt_tri, log_layer_noise |-> s.log_layer_noise,
      inducing_points |-> s.inducing_points, log_lengthscale |-> s.log_lengthscale,
      log_amplitude |-> s.log_amplitude, requires_grad |-> s.requires_grad ]

\* C1: in VIPLayerInducing and SparseGP, KL reads exactly the Lu and the dense
\* q_sqrt most recently written by a Forward call on the instance (the Lu of
\* that call and the unpacking of q_sqrt_tri as it was at that call), whatever
\* optimizer steps, KL calls and failed factorisations came since; a KL call
\* made before any Forward has written them fails and returns no value.
C1_KLReadsLatestForward ==
    (ret.op = "KL" /\ IsInducing(layer)) =>
        IF written.Lu = None
        THEN ret.status = "raised" /\ ret.kl = None
        ELSE ret.readLu = written.Lu /\ ret.readQ = written.q_sqrt

\* C1 witness: a KL that returned a value after the optimizer changed
\* q_sqrt_tri behind the cache
C1_Witness ==
    /\ ret.op = "KL" /\ IsInducing(layer) /\ ret.status = "ok"
    /\ written.Lu # None
    /\ ret.readQ = written.q_sqrt
    /\ ret.readQ # Unpack(layer.q_sqrt_tri, layer.num, layer.output_dim)

\* C3: freeze_posterior completes without error and leaves q_mu, q_sqrt_tri
\* and, when a log-noise parameter is present, log_layer_noise non-trainable,
\* for every output dimensionality and every log-noise value.
C3_FreezeCompletes ==
    ret.op = "freeze_posterior" =>
        /\ ret.status = "ok"
        /\ ~layer.requires_grad.q_mu
        /\ ~layer.requires_grad.q_sqrt_tri
        /\ (layer.log_layer_noise # None => ~layer.requires_grad.log_layer_noise)

\* C5: the packed parameter q_sqrt_tri has shape (D, K(K+1)/2): first axis the
\* output dimension, second axis the packed triangular position, at
\* construction and ever after.
C5_PackedShape ==
    layer.kind # "none" =>
        Shape2(layer.q_sqrt_tri) = <<layer.output_dim, TriLen(layer.num)>>

\* C7: no Forward or KL call changes a parameter or a requires_grad flag; a
\* Forward of VIPLayerInducing / SparseGP changes no attribute but the cached
\* Lu and dense q_sqrt; VIPLayer.forward and every KL change no attribute.
C7_ForwardKLFrame ==
    [][ ret'.op \in {"forward", "KL"} =>
          /\ Params(layer') = Params(layer)
          /\ (layer.kind = "VIPLayer" \/ ret'.op = "KL") => layer' = layer
          /\ [layer' EXCEPT !.Lu = layer.Lu, !.q_sqrt = layer.q_sqrt] = layer ]_vars

\* C7 witness: a Forward of an inducing layer that has re-cached the factor of
\* parameters the optimizer had changed, the parameters being what they were
C7_Witness ==
    /\ ret.op = "forward" /\ ret.status = "ok" /\ IsInducing(layer)
    /\ layer.q_sqrt = Unpack(layer.q_sqrt_tri, layer.num, layer.output_dim)
    /\ layer.q_sqrt_tri # Pack(EyeTiled(layer.num, layer.output_dim, 1), layer.num)
    /\ layer.q_mu # Const2(layer.num, layer.output_dim, 0)

\* the dense factor of the layer's current q_sqrt_tri
Dense(s) == Unpack(s.q_sqrt_tri, s.num, s.output_dim)

\* (q_d q_d^T)[n][b] and (q_d^T q_d)[n][b] of a (M, M, D) tensor q, as [d][n][b]
FactorTimesTranspose(q) ==
    [d \in 1..Len(q[1][1]) |-> [n \in 1..Len(q) |-> [b \in 1..Len(q) |->
        SumSeq([m \in 1..Len(q) |-> q[n][m][d] * q[b][m][d]])]]]

TransposeTimesFactor(q) ==
    [d \in 1..Len(q[1][1]) |-> [n \in 1..Len(q) |-> [b \in 1..Len(q) |->
        SumSeq([m \in 1..Len(q) |-> q[m][n][d] * q[m][b][d]])]]]

\* a Forward of an inducing or sparse layer that returned
InducingForwardDone ==
    ret.op = "forward" /\ ret.status = "ok" /\ IsInducing(layer)

\* C14 as stated: in VIPLayerInducing.forward and SparseGP.forward, SK of output
\* dimension d is q_sqrt_d^T q_sqrt_d - Ku_d, for every lower-triangular
\* q_sqrt_d.
C14_SKIsTransposeTimesFactor ==
    InducingForwardDone =>
        /\ ret.var[1].QQ = TransposeTimesFactor(Dense(layer))
        /\ <<ret.var[1].Ku>> = layer.Lu

\* C14 amended: SK of output dimension d is q_sqrt_d q_sqrt_d^T - Ku_d (the
\* factor times its transpose, the covariance of N(q_mu, q_sqrt q_sqrt^T)),
\* Ku being the inducing covariance the call computed (the one it factorised
\* into Lu), for every lower-triangular q_sqrt_d.
C14_SKIsFactorTimesTranspose ==
    InducingForwardDone =>
        /\ ret.var[1].QQ = FactorTimesTranspose(Dense(layer))
        /\ <<ret.var[1].Ku>> = layer.Lu

\* C14 witness: a Forward with a factor whose off-diagonal entries are not
\* zero, for which the two products differ
C14_Witness ==
    /\ InducingForwardDone /\ layer.num >= 2
    /\ Dense(layer)[2][1][1] # 0
    /\ ret.var[1].QQ = FactorTimesTranspose(Dense(layer))
    /\ FactorTimesTranspose(Dense(layer)) # TransposeTimesFactor(Dense(layer))

\* C16: whenever VIPLayerInducing.KL or SparseGP.KL returns a value, the dense
\* q_sqrt it uses in the trace term is the unpacking of the q_sqrt_tri it uses
\* in the log-determinant term, after any sequence of Forward, optimizer step
\* and KL calls.
C16_KLCacheCurrent ==
    (ret.op = "KL" /\ ret.status = "ok" /\ IsInducing(layer)) =>
        /\ ret.readQ = Dense(layer)
        /\ ret.kl[1].diag = DiagOf(Pack(ret.readQ, layer.num), layer.num)

\* C17: for each of the three layers and every N, D with N # D, a Forward that
\* returns gives the mean and the variance in the same layout (N, D), with and
\* without noise.
C17_SameLayout ==
    (ret.op = "forward" /\ ret.status = "ok" /\ Len(ret.X) # layer.output_dim) =>
        /\ MeanShape(layer, Len(ret.X)) = <<Len(ret.X), layer.output_dim>>
        /\ VarShape(layer, Len(ret.X)) = <<Len(ret.X), layer.output_dim>>

-----------------------------------------------------------------------------
(* Properties of VIPLayer.forward and VIPLayer.KL (SpecVIP) *)

\* the packed identity: 1 at the positions j(j+1)/2 of the diagonal, 0 elsewhere
PackedIdentity(K, D) ==
    [p \in 1..TriLen(K) |-> [d \in 1..D |->
        IF \E j \in 1..K : p = (j * (j + 1)) \div 2 THEN 1 ELSE 0]]

\* r with r * r = n, or 0 when n is no square
Isqrt(n) == IF \E r \in 1..n : r * r = n THEN CHOOSE r \in 1..n : r * r = n ELSE 0

\* the mean entry e of a layer with S samples has the value num / den
MeanIs(e, S, num, den) ==
    /\ ~e.nan
    /\ IF Isqrt(S - 1) # 0
       THEN den * (e.rat * Isqrt(S - 1) + e.irr) = num * S * Isqrt(S - 1)
       ELSE e.irr = 0 /\ den * e.rat = num * S

\* C8: VIPLayer.KL returns exactly 0 when q_mu is all zeros, q_sqrt is the
\* identity for every output dimension and add_prior_regularization is off.
C8_KLZeroAtPrior ==
    ( /\ ret.op = "KL" /\ layer.kind = "VIPLayer"
      /\ layer.q_mu = Const2(layer.num, layer.output_dim, 0)
      /\ layer.q_sqrt_tri = PackedIdentity(layer.num, layer.output_dim)
      /\ ~layer.add_prior_regularization )
    => ret.kl = <<[inf |-> FALSE, twice |-> 0, ln2 |-> 0, genf |-> 0]>>

\* C8 witness: such a KL call on a layer with several samples and outputs
C8_Witness ==
    /\ ret.op = "KL" /\ layer.kind = "VIPLayer"
    /\ layer.num >= 2 /\ layer.output_dim >= 2
    /\ layer.q_mu = Const2(layer.num, layer.output_dim, 0)
    /\ layer.q_sqrt_tri = PackedIdentity(layer.num, layer.output_dim)
    /\ ~layer.add_prior_regularization
    /\ ret.kl = <<[inf |-> FALSE, twice |-> 0, ln2 |-> 0, genf |-> 0]>>

\* Forward of a VIPLayer whose generative function is constantly zero returns
\* the mean function's output (zero without one) as mean and exp(log_noise)
\* per output dimension (zero without noise) as variance.
ZeroSamplesResult ==
    \A n \in 1..Len(ret.X) : \A d \in 1..layer.output_dim :
        /\ MeanIs(ret.mean[n][d], layer.num,
                  MeanFn(layer.mean_function, ret.X[n], d), 1)
        /\ ~ret.var[n][d].nan
        /\ ret.var[n][d].num = 0
        /\ ret.var[n][d].noise =
              (IF layer.log_layer_noise = None THEN None ELSE <<layer.log_layer_noise[d]>>)

SampleTotal(g, S, x, o) == SumSeq([a \in 1..S |-> GenF(g, a, x, o)])

SampleSquares(g, S, x, o) ==
    SumSeq([a \in 1..S |-> (S * GenF(g, a, x, o) - SampleTotal(g, S, x, o))
                           * (S * GenF(g, a, x, o) - SampleTotal(g, S, x, o))])

\* the state a claim about the prior-like layer speaks of
AtPriorNoNoise ==
    /\ ret.op = "forward" /\ layer.kind = "VIPLayer" /\ layer.num >= 2
    /\ layer.q_mu = Const2(layer.num, layer.output_dim, 0)
    /\ layer.q_sqrt_tri = PackedIdentity(layer.num, layer.output_dim)
    /\ layer.log_layer_noise = None /\ layer.mean_function = "none"

C12_VarianceOfCoefficients ==
    (ret.op = "forward" /\ layer.kind = "VIPLayer" /\ layer.num >= 2) =>
        LET S == layer.num
            c == Centred(FSamples(layer.generative_function, S, ret.X, layer.output_dim))
            q == Dense(layer)
        IN  \A n \in 1..Len(ret.X) : \A d \in 1..layer.output_dim :
               LET o == IF Len(c[1][1]) = 1 THEN 1 ELSE d
                   t == [a \in 1..S |-> SumSeq([i \in 1..S |-> q[i][a][d] * c[i][n][o]])]
               IN  /\ ~ret.var[n][d].nan
                   /\ ret.var[n][d].num >= 0
                   /\ ret.var[n][d].num = SumSeq([a \in 1..S |-> t[a] * t[a]])

-----------------------------------------------------------------------------
(* Properties of SparseGP.forward and SparseGP.KL in exact arithmetic        *)
(* (SpecSparse)                                                              *)

\* position of the lowest non-zero coefficient of a non-zero polynomial, and
\* that coefficient
Low(p) == CHOOSE k \in 1..Len(p) : p[k] # 0 /\ \A i \in 1..(k - 1) : p[i] = 0

Lead(p) == p[Low(p)]

\* num / det^2 is of the order of the jitter or smaller: it tends to 0 with it
NearZero(num, det) == Len(num) = 0 \/ Low(num) - 1 > 2 * (Low(det) - 1)

\* num / det^2 tends to a / b with the jitter
Near(num, det, a, b) ==
    /\ Len(num) > 0
    /\ Low(num) - 1 = 2 * (Low(det) - 1)
    /\ b * Lead(num) = a * Lead(det) * Lead(det)

\* the kernel entry of two points at one location, amplitude 1, with c jitter units
UnitEntry(c) == [la |-> 0, d2 |-> 0, ls |-> 0, jit |-> c]

\* a Forward of a SparseGP with log-amplitude 0 and log-lengthscale 0 whose
\* inducing points and data points are all at one location
SameLocationForward ==
    /\ ret.op = "forward" /\ layer.kind = "SparseGP" /\ ret.exact # None
    /\ layer.log_amplitude = 0 /\ layer.log_lengthscale = 0
    /\ \E z \in 1..2 :
          /\ \A m \in 1..layer.num : layer.inducing_points[m] = z
          /\ \A n \in 1..Len(ret.X) : ret.X[n] = z

\* C11 as stated: every entry of Ku, Kf and Kfu is amplitude (1.0) + jitter
\* and the variance correction added to diagonal(Kf) is near zero.
C11_AllEntriesAmplitudePlusJitter ==
    SameLocationForward =>
        LET e == ret.exact[1]
            M == layer.num
            N == Len(ret.X)
        IN  /\ \A i, j \in 1..M : e.Ku[i][j] = UnitEntry(PartitionJitter)
            /\ \A i, j \in 1..N : e.Kf[i][j] = UnitEntry(PartitionJitter)
            /\ \A n \in 1..N : \A m \in 1..M : e.Kfu[n][m] = UnitEntry(PartitionJitter)
            /\ \A d \in 1..layer.output_dim : \A n \in 1..N :
                  NearZero(e.delta[d][n], e.det[1])

\* C11 amended: Ku and Kf have amplitude (1.0) + jitter (2e-6) on the diagonal
\* and amplitude (1.0) without jitter off the diagonal, Kfu has amplitude (1.0)
\* without jitter in every entry; with the constructor's q_sqrt (identity) the
\* variance correction added to diagonal(Kf) is near zero for one inducing
\* point and near -(M - 1) / M for M >= 2 inducing points.
C11_DiagonalJitterOnly ==
    SameLocationForward =>
        LET e == ret.exact[1]
            M == layer.num
            N == Len(ret.X)
        IN  /\ \A i, j \in 1..M :
                  e.Ku[i][j] = UnitEntry(IF i = j THEN PartitionJitter ELSE 0)
            /\ \A i, j \in 1..N :
                  e.Kf[i][j] = UnitEntry(IF i = j THEN PartitionJitter ELSE 0)
            /\ \A n \in 1..N : \A m \in 1..M : e.Kfu[n][m] = UnitEntry(0)
            /\ layer.q_sqrt = EyeTiled(M, layer.output_dim, 1) =>
                  \A d \in 1..layer.output_dim : \A n \in 1..N :
                      IF M = 1 THEN NearZero(e.delta[d][n], e.det[1])
                      ELSE Near(e.delta[d][n], e.det[1], 0 - (M - 1), M)

\* C11 witness: the scenario with two inducing and two data points at one
\* location and the constructor's q_sqrt; the correction is near -1/2
C11_Witness ==
    /\ SameLocationForward /\ layer.num = 2 /\ Len(ret.X) = 2
    /\ layer.q_sqrt = EyeTiled(2, layer.output_dim, 1)
    /\ ret.exact[1].Ku[1][2] = UnitEntry(0)
    /\ ret.exact[1].Kfu[1][1] = UnitEntry(0)
    /\ Near(ret.exact[1].delta[1][1], ret.exact[1].det[1], -1, 2)

\* a KL of a SparseGP that returned, the factor Lu being that of inducing
\* points at one location with amplitude 1
SparseKLDone ==
    /\ ret.op = "KL" /\ ret.status = "ok" /\ layer.kind = "SparseGP"
    /\ ret.kl[1].trace # None

\* twice the claimed trace term times Det(Lu Lu^T): the sum over the output
\* dimensions d of |Lu^-1 q_d|_F^2, column b of q_d being q[:, b, d]
FrobeniusOfSolve(src, q) ==
    LET P == CholeskyOf(AddEye(kernel(src.amp, src.ls, src.Z, src.Z), PartitionJitter))
    IN  PSum([d \in 1..Len(q[1][1]) |-> PSum([b \in 1..Len(q) |->
            SolveSquares(Adj(P), [j \in 1..Len(q) |-> q[j][b][d]])])])

\* C15: the trace term of VIPLayerInducing.KL / SparseGP.KL is one half of the
\* sum over the output dimensions d of the squared Frobenius norm of
\* Lu_d^-1 q_sqrt_d, q_sqrt_d being the M x M factor of dimension d of the
\* cached (M, M, D) tensor, for every M, D and every lower-triangular factor.
C15_TraceIsFrobeniusOfSolve ==
    SparseKLDone =>
        ret.kl[1].trace[1].num = FrobeniusOfSolve(ret.readLu[1], ret.readQ)

-----------------------------------------------------------------------------
(* The triangular packing on its own: pack as __init__ does, unpack as       *)
(* forward does (SpecPack)                                                   *)

\* a (K, K, D) tensor with zero strictly-upper entries and lower entries
\* a*i + b*j + c*d + e
LowerTensor(K, D, a, b, c, e) ==
    [i \in 1..K |-> [j \in 1..K |-> [d \in 1..D |->
        IF j <= i THEN a * i + b * j + c * d + e ELSE 0]]]

\* the tensors the packing is tried on
LowerTensors(K, D) ==
    { LowerTensor(K, D, a, b, c, e) :
        a \in 0..MaxCoef, b \in 0..MaxCoef, c \in 0..1, e \in -1..1 }

InitPack ==
    /\ \E K \in 1..MaxK, D \in 1..MaxD : \E M \in LowerTensors(K, D) :
          pk = [pc |-> "dense", K |-> K, D |-> D, M |-> M,
                packed |-> None, diag |-> None, unpacked |-> None]
    /\ layer = [kind |-> "none"] /\ ret = NoRet /\ written = NoWritten
    /\ il = Idle /\ thr = Idle /\ objs = Idle

\* li, lj = tril_indices(K, K); triangular_q_sqrt = q_sqrt[li, lj]
PackStep ==
    /\ pk.pc = "dense"
    /\ pk' = [pk EXCEPT !.pc = "packed", !.packed = Pack(pk.M, pk.K)]
    /\ UNCHANGED <<layer, ret, written, il, thr, objs>>

\* diag = q_sqrt_tri[diag_indexes]
DiagStep ==
    /\ pk.pc = "packed" /\ pk.diag = None
    /\ pk' = [pk EXCEPT !.diag = DiagOf(pk.packed, pk.K)]
    /\ UNCHANGED <<layer, ret, written, il, thr, objs>>

\* q_sqrt = zeros((K, K, D)); q_sqrt[li, lj] = q_sqrt_tri
UnpackStep ==
    /\ pk.pc = "packed"
    /\ pk' = [pk EXCEPT !.pc = "unpacked", !.unpacked = Unpack(pk.packed, pk.K, pk.D)]
    /\ UNCHANGED <<layer, ret, written, il, thr, objs>>

NextPack == PackStep \/ DiagStep \/ UnpackStep

SpecPack == InitPack /\ [][NextPack]_vars

\* C4: unpacking the packing of a (K, K, D) tensor M whose strictly-upper
\* entries are zero yields M exactly, and every strictly-upper entry of the
\* unpacked tensor is zero.
C4_RoundTrip ==
    pk.pc = "unpacked" =>
        /\ pk.unpacked = pk.M
        /\ \A i \in 1..pk.K : \A j \in 1..pk.K : \A d \in 1..pk.D :
              j > i => pk.unpacked[i][j][d] = 0

\* C4 witness: a round trip of a 3 x 3 x 2 tensor whose lower entries all differ
C4_Witness ==
    /\ pk.pc = "unpacked" /\ pk.K = 3 /\ pk.D = 2
    /\ pk.unpacked = pk.M
    /\ \A i1, i2 \in 1..3 : \A j1, j2 \in 1..3 :
          (j1 <= i1 /\ j2 <= i2 /\ <<i1, j1>> # <<i2, j2>>)
              => pk.M[i1][j1][1] # pk.M[i2][j2][1]
    /\ pk.M[1][1][1] # 0

-----------------------------------------------------------------------------
(* init_layers (SpecInit): the dimensions of the stack and the loop that     *)
(* builds one layer per consecutive pair                                     *)

\* [v] * n
Repeat(v, n) == [k \in 1..(IF n > 0 THEN n ELSE 0) |-> v]

\* Lines 143-151: the outcome of computing dims from the arguments
\* (len(vip_layers) = 0 fails at vip_layers[-1])
DimsOf(xdim, output_dim, vip_layers) ==
    IF Len(vip_layers) = 1
    THEN [error |-> "none",
          dims |-> <<xdim>> \o Repeat(xdim, vip_layers[1] - 1) \o <<output_dim>>]
    ELSE IF Len(vip_layers) = 0
    THEN [error |-> "IndexError", dims |-> <<>>]
    ELSE IF vip_layers[Len(vip_layers)] # output_dim
    THEN [error |-> "RuntimeError", dims |-> <<>>]
    ELSE [error |-> "none", dims |-> <<xdim>> \o vip_layers]

\* The branch without its else: an increase treated like the last layer.
BranchNoRaise(i, ndims, dim_in, dim_out) ==
    IF i = ndims - 2 THEN "none"
    ELSE IF dim_in = dim_out THEN "identity"
    ELSE IF dim_in > dim_out THEN "projection"
    ELSE "none"

\* Lines 163-194: the mean function chosen for layer i (counted from 0), or
\* "raise" for NotImplementedError
Branch(i, ndims, dim_in, dim_out) ==
    IF i = ndims - 2 THEN "none"
    ELSE IF dim_in = dim_out THEN "identity"
    ELSE IF dim_in > dim_out THEN "projection"
    ELSE "raise"

VipLayerLists ==
    UNION { [1..n -> 1..MaxDim] : n \in 0..MaxLayers }

InitLayers ==
    /\ \E xdim \in 1..MaxDim, output_dim \in 1..MaxDim, vl \in VipLayerLists,
          input_prop \in BOOLEAN, inducing_layer \in BOOLEAN :
          il = [ pc |-> "start", xdim |-> xdim, output_dim |-> output_dim,
                 vip_layers |-> vl, input_prop |-> input_prop,
                 inducing_layer |-> inducing_layer,
                 dims |-> <<>>, i |-> 0, layers |-> <<>>,
                 error |-> "none", result |-> None ]
    /\ layer = [kind |-> "none"] /\ ret = NoRet /\ written = NoWritten
    /\ pk = Idle /\ thr = Idle /\ objs = Idle

\* lines 143-158
ComputeDims ==
    /\ il.pc = "start"
    /\ LET r == DimsOf(il.xdim, il.output_dim, il.vip_layers)
       IN  il' = [il EXCEPT !.pc = IF r.error = "none" THEN "loop" ELSE "raised",
                            !.error = r.error, !.dims = r.dims]
    /\ UNCHANGED <<layer, ret, written, pk, thr, objs>>

\* one iteration of the loop of lines 159-278
BuildLayer ==
    /\ il.pc = "loop" /\ il.i < Len(il.dims) - 1
    /\ LET dim_in  == il.dims[il.i + 1]
           dim_out == il.dims[il.i + 2]
           b  == Branch(il.i, Len(il.dims), dim_in, dim_out)
           mf == IF ~il.input_prop /\ il.i < 1 THEN "none" ELSE b
       IN  IF b = "raise"
           THEN il' = [il EXCEPT !.pc = "raised", !.error = "NotImplementedError"]
           ELSE il' = [il EXCEPT !.i = @ + 1,
                          !.layers = Append(@,
                              [ kind |-> IF il.inducing_layer THEN "VIPLayerInducing"
                                         ELSE "VIPLayer",
                                input_dim |-> dim_in, output_dim |-> dim_out,
                                mean_function |-> mf ])]
    /\ UNCHANGED <<layer, ret, written, pk, thr, objs>>

\* line 280
ReturnLayers ==
    /\ il.pc = "loop" /\ il.i = Len(il.dims) - 1
    /\ il' = [il EXCEPT !.pc = "returned", !.result = <<il.layers>>]
    /\ UNCHANGED <<layer, ret, written, pk, thr, objs>>

NextInit == ComputeDims \/ BuildLayer \/ ReturnLayers

SpecInit == InitLayers /\ [][NextInit]_vars

\* the dimensions the stack is asked to have, from the arguments alone
AskedDims ==
    IF Len(il.vip_layers) = 1
    THEN <<il.xdim>> \o Repeat(il.xdim, il.vip_layers[1] - 1) \o <<il.output_dim>>
    ELSE <<il.xdim>> \o il.vip_layers

\* a multi-element vip_layers list that does not end in output_dim
BadLast ==
    Len(il.vip_layers) > 1 /\ il.vip_layers[Len(il.vip_layers)] # il.output_dim

\* some consecutive pair among the first n pairs asks for an increase
IncreaseWithin(n) ==
    \E k \in 1..n : k + 1 <= Len(AskedDims) /\ AskedDims[k] < AskedDims[k + 1]

Finished == il.pc \in {"returned", "raised"}

Aborted == il.pc = "raised" /\ il.result = None

-----------------------------------------------------------------------------
(* Two Forward calls on one layer instance, interleaved statement by         *)
(* statement (SpecConc).  The parameters are not mutated.  Here the          *)
(* attribute self.q_sqrt holds a reference <<t>> to the tensor allocated by  *)
(* the call of thread t, whose content is objs[t]: the fill of line 388 /    *)
(* 553 writes into whatever tensor self.q_sqrt refers to at that moment.     *)

Threads == {1, 2}

NoThread == [pc |-> "idle", X |-> None, draw |-> 0, luT |-> None, lu |-> None,
             q1 |-> None, res |-> None]

InitConc ==
    /\ \E kind \in Kinds, K \in 1..MaxM, D \in 1..MaxD, noise \in {None, <<1>>} :
          layer = NewLayer(kind, K, D, "ramp", noise, "none", FALSE, 0, 1)
    /\ thr = [t \in Threads |-> NoThread]
    /\ objs = [t \in Threads |-> None]
    /\ ret = NoRet /\ written = NoWritten /\ pk = Idle /\ il = Idle

\* the call of thread t starts; the two calls are given different batches
Call(t) ==
    /\ thr[t].pc = "idle"
    /\ \E X \in Batches, draw \in Draws :
          /\ \A u \in Threads \ {t} : thr[u].X # X
          /\ thr' = [thr EXCEPT ![t] = [@ EXCEPT !.pc = IF layer.kind = "VIPLayer"
                                                        THEN "local" ELSE "setLu",
                                                 !.X = X, !.draw = draw]]
    /\ UNCHANGED <<layer, objs, ret, written, pk, il>>

\* VIPLayer.forward, lines 199-236: locals only
LocalForward(t) ==
    /\ thr[t].pc = "local"
    /\ LET r == VIPForward(layer, thr[t].X)
       IN  thr' = [thr EXCEPT ![t] = [@ EXCEPT !.pc = "done",
                      !.res = <<[status |-> r.status, mean |-> r.mean, var |-> r.var]>>]]
    /\ UNCHANGED <<layer, objs, ret, written, pk, il>>

\* line 374 / 539: self.Lu = cholesky(Ku + jitter)
SetLu(t) ==
    /\ thr[t].pc = "setLu"
    /\ layer' = [layer EXCEPT !.Lu = LuOf(layer, thr[t].draw)]
    /\ thr' = [thr EXCEPT ![t] = [@ EXCEPT !.pc = "solve1"]]
    /\ UNCHANGED <<objs, ret, written, pk, il>>

\* line 376 / 541: the first solve reads self.Lu
Solve1(t) ==
    /\ thr[t].pc = "solve1"
    /\ thr' = [thr EXCEPT ![t] = [@ EXCEPT !.pc = "solve2", !.luT = layer.Lu]]
    /\ UNCHANGED <<layer, objs, ret, written, pk, il>>

\* line 377 / 542: the second solve reads self.Lu
Solve2(t) ==
    /\ thr[t].pc = "solve2"
    /\ thr' = [thr EXCEPT ![t] = [@ EXCEPT !.pc = "zeros", !.lu = layer.Lu]]
    /\ UNCHANGED <<layer, objs, ret, written, pk, il>>

\* lines 382-386 / 547-551: self.q_sqrt = zeros((M, M, D))
AssignZeros(t) ==
    /\ thr[t].pc = "zeros"
    /\ objs' = [objs EXCEPT ![t] = Zeros3(layer.num, layer.output_dim)]
    /\ layer' = [layer EXCEPT !.q_sqrt = <<t>>]
    /\ thr' = [thr EXCEPT ![t] = [@ EXCEPT !.pc = "fill"]]
    /\ UNCHANGED <<ret, written, pk, il>>

\* line 388 / 553: self.q_sqrt[li, lj] = self.q_sqrt_tri
Fill(t) ==
    /\ thr[t].pc = "fill"
    /\ objs' = [objs EXCEPT ![layer.q_sqrt[1]] =
                   Unpack(layer.q_sqrt_tri, layer.num, layer.output_dim)]
    /\ thr' = [thr EXCEPT ![t] = [@ EXCEPT !.pc = "read1"]]
    /\ UNCHANGED <<layer, ret, written, pk, il>>

\* line 390 / 555: the first operand self.q_sqrt of the einsum is loaded
Read1(t) ==
    /\ thr[t].pc = "read1"
    /\ thr' = [thr EXCEPT ![t] = [@ EXCEPT !.pc = "read2", !.q1 = layer.q_sqrt]]
    /\ UNCHANGED <<layer, objs, ret, written, pk, il>>

\* lines 390-407 / 555-572: the second operand is loaded, SK, the variance
\* and the mean are computed from the locals and returned
Finish(t) ==
    /\ thr[t].pc = "read2"
    /\ LET me == thr[t]
           A  == AOf(layer, me.X, me.draw, me.luT, me.lu)
           qq == QQ(objs[me.q1[1]], objs[layer.q_sqrt[1]])
           ok == VarShape(layer, Len(me.X)) # None
       IN  thr' = [thr EXCEPT ![t] = [@ EXCEPT !.pc = "done",
                      !.res = <<[ status |-> IF ok THEN "ok" ELSE "raised",
                                  mean |-> IF ok THEN MeanOf(layer, A, me.X) ELSE None,
                                  var  |-> IF ok THEN VarOf(layer, A, me.X, me.draw, qq)
                                           ELSE None ]>>]]
    /\ UNCHANGED <<layer, objs, ret, written, pk, il>>

NextConc ==
    \E t \in Threads :
        \/ Call(t) \/ LocalForward(t) \/ SetLu(t) \/ Solve1(t) \/ Solve2(t)
        \/ AssignZeros(t) \/ Fill(t) \/ Read1(t) \/ Finish(t)

SpecConc == InitConc /\ [][NextConc]_vars

\* what the call of thread t returns when it runs alone
Alone(t) ==
    LET r == IF layer.kind = "VIPLayer" THEN VIPForward(layer, thr[t].X)
             ELSE InducingForward(layer, thr[t].X, thr[t].draw)
    IN  <<[status |-> r.status, mean |-> r.mean, var |-> r.var]>>

\* C2: under every interleaving of two Forward calls on the same layer with
\* different batches and unmutated parameters, each call returns the mean
\* and variance it returns when run alone.
C2_ConcurrentForwardSafe ==
    \A t \in Threads : thr[t].pc = "done" => thr[t].res = Alone(t)

=============================================================================
